---------------------------- MODULE Spec2Model ----------------------------
(***************************************************************************)
(* Verification model of NeXpy's GUI helpers:                              *)
(*   - BaseImportDialog          (src/src/gui/importdialog.py)              *)
(*   - NXSpinBox                 (src/src/nexpy/gui/widgets.py)             *)
(*   - NXpatch / NXcircle / NXrectangle  (src/src/nexpy/gui/widgets.py)     *)
(*                                                                         *)
(* Three independent state machines share the module.  Each has its own    *)
(* specification (SpecDialog, SpecSpin, SpecPatch, SpecConnect); an        *)
(* operation leaves the variables of the other components unchanged.       *)
(*                                                                         *)
(* Numbers.  Python floats are modelled by exact integers.  Spin-box       *)
(* comparisons that involve tolerance = diff/100 are multiplied through    *)
(* by 100; shape comparisons that involve border_tol = BtNum/BtDen are     *)
(* multiplied through by BtDen; a circle stores the square of its radius   *)
(* so that sqrt() never has to be evaluated.  Floating-point rounding is   *)
(* outside the model.                                                      *)
(***************************************************************************)
EXTENDS Integers, Sequences, FiniteSets, TLC

VARIABLES
    \* ---- BaseImportDialog ----
    filename,       \* text of the self.filename QLineEdit
    directoryname,  \* text of the self.directoryname QLineEdit
    accepted,       \* self.accepted
    visible,        \* the QDialog is open (not yet closed by accept/reject)
    dpc,            \* position inside accept(): "idle", "import_data", "QDialog_accept"
    imports,        \* number of calls made to _mainwindow.import_data()
    \* ---- NXSpinBox ----
    data,           \* self.data, the axis values as stored (a sequence)
    index,          \* QSpinBox integer value (self.index)
    diff,           \* self.diff; 0 stands for None / 0.0 (both falsy)
    pause,          \* self.pause
    \* ---- NXpatch and the canvas it is connected to ----
    shape,          \* patch -> geometry of its matplotlib shape
    press,          \* patch -> None or the tuple returned by initialize()
    cids,           \* patch -> None or [cidpress, cidrelease, cidmotion]
    callbacks,      \* canvas callback registry: set of [cid, name, patch]
    nextcid,        \* next connection id handed out by canvas.mpl_connect
    active,         \* plotview default pan/zoom interaction mode is active
    nevents         \* number of pointer events dispatched by the canvas

dialogVars == <<filename, directoryname, accepted, visible, dpc, imports>>
spinVars   == <<data, index, diff, pause>>
patchVars  == <<shape, press, cids, callbacks, nextcid, active, nevents>>
vars       == <<dialogVars, spinVars, patchVars>>

\* Python's None for an optional tuple: the empty tuple; Some(t) wraps a value.
None == <<>>

Some(t) == <<t>>

Get(o) == o[1]

Abs(n) == IF n < 0 THEN -n ELSE n

-----------------------------------------------------------------------------
(***************************************************************************)
(* BaseImportDialog                                                        *)
(***************************************************************************)

\* Absolute paths the nested QFileDialog can return on confirmation.
Paths == {"/home/u/a.txt", "/home/u/b.txt", "/home/u/data", "/home/u/scan"}

\* What QFileDialog.getOpenFileName / getExistingDirectory return: the chosen
\* path, or the empty string when the user cancels the picker.
Cancelled == ""
PickerResults == Paths \cup {Cancelled}

\* State of a dialog whose constructor has run and has built its file box,
\* directory box and button box (empty line edits, accepted = False).
DialogInit ==
    /\ filename = ""
    /\ directoryname = ""
    /\ accepted = FALSE
    /\ visible = TRUE
    /\ dpc = "idle"
    /\ imports = 0

\* The dialog's buttons deliver clicks only while it is open and no handler
\* is running (single UI thread).
DialogReady == visible /\ dpc = "idle"

get_filename == filename

get_directory == directoryname

\* choose_file(): picked is the value returned by the modal file picker.
choose_file(picked) ==
    /\ DialogReady
    /\ filename' = picked
    /\ UNCHANGED <<directoryname, accepted, visible, dpc, imports>>
    /\ UNCHANGED <<spinVars, patchVars>>

\* choose_directory(): picked is the value returned by the directory picker.
choose_directory(picked) ==
    /\ DialogReady
    /\ directoryname' = picked
    /\ UNCHANGED <<filename, accepted, visible, dpc, imports>>
    /\ UNCHANGED <<spinVars, patchVars>>

\* accept() that forgets to mark the dialog accepted.
accept_mark_unset ==
    /\ DialogReady
    /\ accepted' = accepted
    /\ dpc' = "import_data"
    /\ UNCHANGED <<filename, directoryname, visible, imports>>
    /\ UNCHANGED <<spinVars, patchVars>>

\* accept(), first statement: self.accepted = True.
accept_mark ==
    /\ DialogReady
    /\ accepted' = TRUE
    /\ dpc' = "import_data"
    /\ UNCHANGED <<filename, directoryname, visible, imports>>
    /\ UNCHANGED <<spinVars, patchVars>>

\* accept(), second statement: _mainwindow.import_data().
accept_import ==
    /\ dpc = "import_data"
    /\ imports' = imports + 1
    /\ dpc' = "QDialog_accept"
    /\ UNCHANGED <<filename, directoryname, accepted, visible>>
    /\ UNCHANGED <<spinVars, patchVars>>

\* accept(), last statement: QtGui.QDialog.accept(self) closes the dialog.
accept_close ==
    /\ dpc = "QDialog_accept"
    /\ visible' = FALSE
    /\ dpc' = "idle"
    /\ UNCHANGED <<filename, directoryname, accepted, imports>>
    /\ UNCHANGED <<spinVars, patchVars>>

\* reject(): self.accepted = False; QtGui.QDialog.reject(self).
reject ==
    /\ DialogReady
    /\ accepted' = FALSE
    /\ visible' = FALSE
    /\ UNCHANGED <<filename, directoryname, dpc, imports>>
    /\ UNCHANGED <<spinVars, patchVars>>

ChooseFile == \E picked \in PickerResults : choose_file(picked)
ChooseDirectory == \E picked \in PickerResults : choose_directory(picked)

-----------------------------------------------------------------------------
(***************************************************************************)
(* NXSpinBox                                                               *)
(*                                                                         *)
(* Python indices are 0-based; At(s, i) reads s[i] the Python way.         *)
(***************************************************************************)

MaxLen   == 3          \* longest axis modelled
MaxSteps == 2          \* stepBy(steps) is called with |steps| <= MaxSteps

\* Values an axis may hold and values a caller may pass to setValue.
AxisValues == {0, 100, 199, 200, 300}
SetValues  == {-50, 0, 99, 150, 200, 350}
\* Increments the host may configure; 0 stands for "no increment" (None).
Diffs == {0, 50, 100}
Steps == (-MaxSteps)..MaxSteps

At(s, i) == s[i + 1]

Reverse(s) == [i \in 1..Len(s) |-> s[Len(s) + 1 - i]]

StrictlyAscending(s) == \A i \in 1..(Len(s) - 1) : s[i] < s[i + 1]

\* Axis data as stored: bin centres in strictly increasing or strictly
\* decreasing order.
AxisData ==
    LET asc == UNION {{s \in [1..n -> AxisValues] : StrictlyAscending(s)} : n \in 1..MaxLen}
    IN  asc \cup {Reverse(s) : s \in asc}

\* reversed: the data is stored in descending order.
reversed == data[Len(data)] < data[1]

\* centers: the axis, turned round when the data is stored descending.
centers == IF reversed THEN Reverse(data) ELSE data

\* QSpinBox.maximum(): the last valid index of the bound axis.
maximum == Len(data) - 1

\* value(): the centre at the current index.
value == At(centers, index)

\* np.abs(centers - v).argmin(): lowest index of a centre nearest to v.
ArgMinAbs(c, v) ==
    CHOOSE i \in 0..(Len(c) - 1) :
        \A j \in 0..(Len(c) - 1) :
            /\ Abs(At(c, i) - v) <= Abs(At(c, j) - v)
            /\ (Abs(At(c, j) - v) = Abs(At(c, i) - v) => i <= j)

indexFromValue_data(v) == ArgMinAbs(data, v)

indexFromValue(v) == ArgMinAbs(centers, v)

valueFromIndex(idx) ==
    IF idx < 0 THEN At(centers, 0)
    ELSE IF idx > maximum THEN At(centers, Len(centers) - 1)
    ELSE At(centers, idx)

\* QSpinBox.setValue(i) bounds i to [minimum, maximum] = [0, maximum].
QSpinBox_bound(i) == IF i < 0 THEN 0 ELSE IF i > maximum THEN maximum ELSE i

\* NXSpinBox.setValue(v): super().setValue(self.valueFromText(v)).
setValue(v) ==
    /\ index' = QSpinBox_bound(indexFromValue(v))
    /\ UNCHANGED <<data, diff, pause>>
    /\ UNCHANGED <<dialogVars, patchVars>>

\* The acceptance test of stepBy in increment mode, with tolerance = diff/100
\* (both sides multiplied by 100).
diffStepAccepted_nodiff(v) ==
    /\ 100 * v <= 100 * At(centers, Len(centers) - 1) + diff
    /\ 100 * v >= 100 * At(centers, 0) - diff

diffStepAccepted(v) ==
    /\ 100 * v <= 100 * At(centers, Len(centers) - 1) + diff
    /\ 100 * (v - diff) >= 100 * At(centers, 0) - diff

\* The acceptance test of stepBy in index mode.
indexStepAccepted(steps) ==
    /\ index + steps <= maximum
    /\ index + steps >= 0

\* stepBy without the reset of pause at its start.
stepBy_noreset(steps) ==
    /\ IF diff # 0
       THEN IF diffStepAccepted(value + steps * diff)
            THEN /\ index' = QSpinBox_bound(indexFromValue(value + steps * diff))
                 /\ pause' = pause
            ELSE /\ pause' = TRUE
                 /\ index' = index
       ELSE IF indexStepAccepted(steps)
            THEN /\ index' = QSpinBox_bound(index + steps)
                 /\ pause' = pause
            ELSE /\ pause' = TRUE
                 /\ index' = index
    /\ UNCHANGED <<data, diff>>
    /\ UNCHANGED <<dialogVars, patchVars>>

\* NXSpinBox.stepBy(steps).
stepBy(steps) ==
    /\ IF diff # 0
       THEN IF diffStepAccepted(value + steps * diff)
            THEN /\ index' = QSpinBox_bound(indexFromValue(value + steps * diff))
                 /\ pause' = FALSE
            ELSE /\ pause' = TRUE
                 /\ index' = index
       ELSE IF indexStepAccepted(steps)
            THEN /\ index' = QSpinBox_bound(index + steps)
                 /\ pause' = FALSE
            ELSE /\ pause' = TRUE
                 /\ index' = index
    /\ UNCHANGED <<data, diff>>
    /\ UNCHANGED <<dialogVars, patchVars>>

\* A spin box constructed and bound to an axis by the host.
SpinInit ==
    /\ data \in AxisData
    /\ index = 0
    /\ diff \in Diffs
    /\ pause = FALSE

StepBy == \E steps \in Steps : stepBy(steps)
SetValue == \E v \in SetValues : setValue(v)

-----------------------------------------------------------------------------
(***************************************************************************)
(* NXpatch, NXcircle, NXrectangle and the canvas                           *)
(*                                                                         *)
(* A pointer event is [inaxes, x, y]: inaxes says that event.inaxes is the *)
(* plot's axes (shape.axes, set by ax.add_patch in the constructor), and   *)
(* x, y are event.xdata, event.ydata.                                      *)
(***************************************************************************)

MaxCoord  == 3         \* pointer positions are the grid points 0..MaxCoord
MaxEvents == 3         \* pointer events dispatched in one run
MaxCid    == 12        \* connection ids the canvas hands out in one run

\* border_tol = BtNum / BtDen, the constructors' default 0.1.
BtNum == 1
BtDen == 10

Coords == 0..MaxCoord

InAxesEvents == [inaxes : {TRUE}, x : Coords, y : Coords]
\* An event outside every axes carries no data coordinates.
OffAxesEvents == {[inaxes |-> FALSE, x |-> 0, y |-> 0]}
Events == InAxesEvents \cup OffAxesEvents

\* The shapes drawn on the canvas: NXcircle(1, 1, 1) and NXrectangle(1, 1, 2, 2).
\* A circle keeps r2, the square of its radius.
CircleShape == [kind |-> "Circle", x |-> 1, y |-> 1, r2 |-> 1]
RectangleShape == [kind |-> "Rectangle", x |-> 1, y |-> 1, w |-> 2, h |-> 2]
PatchShapes == [circle |-> CircleShape, rectangle |-> RectangleShape]

Patches == DOMAIN shape

\* self.allow_resize, set True by the constructor and never changed here.
allow_resize == TRUE

Min(a, b) == IF a < b THEN a ELSE b
Max(a, b) == IF a > b THEN a ELSE b

\* shape.contains(event): the backend's geometric containment test.
contains(p, e) ==
    LET s == shape[p] IN
    IF s.kind = "Circle"
    THEN (e.x - s.x) * (e.x - s.x) + (e.y - s.y) * (e.y - s.y) <= s.r2
    ELSE /\ Min(s.x, s.x + s.w) <= e.x /\ e.x <= Max(s.x, s.x + s.w)
         /\ Min(s.y, s.y + s.h) <= e.y /\ e.y <= Max(s.y, s.y + s.h)

is_inside(p, e) ==
    IF ~e.inaxes THEN FALSE
    ELSE contains(p, e)

\* NXcircle.initialize: sqrt(d2) > r0 * (1 - bt), squared and scaled by BtDen^2.
NXcircle_initialize(p, xp, yp) ==
    LET x0 == shape[p].x
        y0 == shape[p].y
        r0sq == shape[p].r2
        d2 == (xp - x0) * (xp - x0) + (yp - y0) * (yp - y0)
    IN  [x0 |-> x0, y0 |-> y0, r2 |-> r0sq, xp |-> xp, yp |-> yp,
         expand |-> (allow_resize /\
                     BtDen * BtDen * d2 > (BtDen - BtNum) * (BtDen - BtNum) * r0sq)]

\* A circle update that translates the current centre instead of the
\* press-time centre.
NXcircle_update_incremental(p, x, y) ==
    LET pr == Get(press[p])
        dx == x - pr.xp
        dy == y - pr.yp
    IN  IF pr.expand
        THEN [shape[p] EXCEPT !.r2 = (pr.xp + dx - pr.x0) * (pr.xp + dx - pr.x0)
                                   + (pr.yp + dy - pr.y0) * (pr.yp + dy - pr.y0)]
        ELSE [shape[p] EXCEPT !.x = shape[p].x + dx, !.y = shape[p].y + dy, !.r2 = pr.r2]

NXcircle_update(p, x, y) ==
    LET pr == Get(press[p])
        dx == x - pr.xp
        dy == y - pr.yp
    IN  IF pr.expand
        THEN [shape[p] EXCEPT !.r2 = (pr.xp + dx - pr.x0) * (pr.xp + dx - pr.x0)
                                   + (pr.yp + dy - pr.y0) * (pr.yp + dy - pr.y0)]
        ELSE [shape[p] EXCEPT !.x = pr.x0 + dx, !.y = pr.y0 + dy, !.r2 = pr.r2]

\* NXrectangle.initialize: abs(x0 + w0/2 - xp) > w0/2 - bt*w0, scaled by 2*BtDen.
NXrectangle_initialize(p, xp, yp) ==
    LET x0 == shape[p].x
        y0 == shape[p].y
        w0 == shape[p].w
        h0 == shape[p].h
    IN  [x0 |-> x0, y0 |-> y0, w0 |-> w0, h0 |-> h0, xp |-> xp, yp |-> yp,
         expand |-> (allow_resize /\
                     (\/ BtDen * Abs(2 * x0 + w0 - 2 * xp) > BtDen * w0 - 2 * BtNum * w0
                      \/ BtDen * Abs(2 * y0 + h0 - 2 * yp) > BtDen * h0 - 2 * BtNum * h0))]

\* NXrectangle.update: the left-edge test is an `if` of its own; the
\* right / low-y / high-y tests form one if-elif-elif chain after it.
NXrectangle_update(p, x, y) ==
    LET pr == Get(press[p])
        dx == x - pr.xp
        dy == y - pr.yp
        left   == BtDen * Abs(pr.x0 - pr.xp) < BtNum * pr.w0
        right  == BtDen * Abs(pr.x0 + pr.w0 - pr.xp) < BtNum * pr.w0
        ylow   == BtDen * Abs(pr.y0 - pr.yp) < BtNum * pr.h0
        yhigh  == BtDen * Abs(pr.y0 + pr.h0 - pr.yp) < BtNum * pr.h0
        s0 == shape[p]
        s1 == IF left THEN [s0 EXCEPT !.x = pr.x0 + dx, !.w = pr.w0 - dx] ELSE s0
        s2 == IF right THEN [s1 EXCEPT !.w = pr.w0 + dx]
              ELSE IF ylow THEN [s1 EXCEPT !.y = pr.y0 + dy, !.h = pr.h0 - dy]
              ELSE IF yhigh THEN [s1 EXCEPT !.h = pr.h0 + dy]
              ELSE s1
    IN  IF pr.expand THEN s2
        ELSE [s0 EXCEPT !.x = pr.x0 + dx, !.y = pr.y0 + dy]

\* Dynamic dispatch of the sub-class hooks.
initialize(p, xp, yp) ==
    IF shape[p].kind = "Circle" THEN NXcircle_initialize(p, xp, yp)
    ELSE NXrectangle_initialize(p, xp, yp)

update(p, x, y) ==
    IF shape[p].kind = "Circle" THEN NXcircle_update(p, x, y)
    ELSE NXrectangle_update(p, x, y)

\* on_press(event): the new value of self.press.
on_press(p, e) ==
    IF ~is_inside(p, e) THEN None
    ELSE Some(initialize(p, e.x, e.y))

\* on_motion without the test that the event is in the shape's axes.
on_motion_anyaxes(p, e) ==
    IF press[p] = None THEN shape[p]
    ELSE update(p, e.x, e.y)

\* on_motion(event): the new geometry of self.shape.
on_motion(p, e) ==
    IF press[p] = None THEN shape[p]
    ELSE IF ~e.inaxes THEN shape[p]
    ELSE update(p, e.x, e.y)

\* on_release(event): the new value of self.press.
on_release(p, e) ==
    IF press[p] = None THEN press[p]
    ELSE None

\* plotview.deactivate() / plotview.activate(): switch the plot surface's
\* default pan/zoom interaction mode off / on.
plotview_deactivate == active' = FALSE

plotview_activate == active' = TRUE

EventNames == <<"button_press_event", "button_release_event", "motion_notify_event">>

\* connect(): plotview.deactivate(), then three canvas.mpl_connect calls,
\* whose ids are kept in cidpress, cidrelease, cidmotion.
connect(p) ==
    /\ nextcid + 2 <= MaxCid
    /\ plotview_deactivate
    /\ callbacks' = callbacks \cup
           {[cid |-> nextcid + i - 1, name |-> EventNames[i], patch |-> p] : i \in 1..3}
    /\ cids' = [cids EXCEPT ![p] = Some(<<nextcid, nextcid + 1, nextcid + 2>>)]
    /\ nextcid' = nextcid + 3
    /\ UNCHANGED <<shape, press, nevents>>
    /\ UNCHANGED <<dialogVars, spinVars>>

\* disconnect(): three canvas.mpl_disconnect calls on the stored ids, then
\* plotview.activate().  Before the first connect() the ids do not exist
\* and the call raises AttributeError on its first line.
disconnect(p) ==
    /\ cids[p] # None
    /\ callbacks' = {c \in callbacks : c.cid \notin {Get(cids[p])[i] : i \in 1..3}}
    /\ plotview_activate
    /\ UNCHANGED <<shape, press, cids, nextcid, nevents>>
    /\ UNCHANGED <<dialogVars, spinVars>>

\* The patch's callback for the named event is registered with the canvas.
Registered(p, name) == \E c \in callbacks : c.patch = p /\ c.name = name

\* The canvas dispatches one pointer event to every registered callback.
Press(e) ==
    /\ nevents < MaxEvents
    /\ nevents' = nevents + 1
    /\ press' = [p \in Patches |->
                    IF Registered(p, "button_press_event") THEN on_press(p, e)
                    ELSE press[p]]
    /\ UNCHANGED <<shape, cids, callbacks, nextcid, active>>
    /\ UNCHANGED <<dialogVars, spinVars>>

Motion(e) ==
    /\ nevents < MaxEvents
    /\ nevents' = nevents + 1
    /\ shape' = [p \in Patches |->
                    IF Registered(p, "motion_notify_event") THEN on_motion(p, e)
                    ELSE shape[p]]
    /\ UNCHANGED <<press, cids, callbacks, nextcid, active>>
    /\ UNCHANGED <<dialogVars, spinVars>>

Release(e) ==
    /\ nevents < MaxEvents
    /\ nevents' = nevents + 1
    /\ press' = [p \in Patches |->
                    IF Registered(p, "button_release_event") THEN on_release(p, e)
                    ELSE press[p]]
    /\ UNCHANGED <<shape, cids, callbacks, nextcid, active>>
    /\ UNCHANGED <<dialogVars, spinVars>>

\* Patches constructed on one plot surface, none connected yet.
Constructed(ps) ==
    /\ shape = [p \in ps |-> PatchShapes[p]]
    /\ press = [p \in ps |-> None]
    /\ cids = [p \in ps |-> None]
    /\ callbacks = {}
    /\ nextcid = 1
    /\ active = TRUE
    /\ nevents = 0

\* Patches constructed and each connected once, in the order circle, rectangle.
Connected(ps) ==
    LET order == <<"circle", "rectangle">>
        pos(p) == CHOOSE i \in 1..2 : order[i] = p
        rank(p) == Cardinality({q \in ps : pos(q) < pos(p)})
    IN  /\ shape = [p \in ps |-> PatchShapes[p]]
        /\ press = [p \in ps |-> None]
        /\ cids = [p \in ps |-> Some(<<3 * rank(p) + 1, 3 * rank(p) + 2, 3 * rank(p) + 3>>)]
        /\ callbacks = {[cid |-> 3 * rank(p) + i, name |-> EventNames[i], patch |-> p] :
                           p \in ps, i \in 1..3}
        /\ nextcid = 3 * Cardinality(ps) + 1
        /\ active = FALSE
        /\ nevents = 0

-----------------------------------------------------------------------------
(***************************************************************************)
(* Specifications                                                          *)
(***************************************************************************)

\* The frozen state of a component that a specification does not exercise.
DialogIdle == DialogInit
SpinIdle == data = <<0>> /\ index = 0 /\ diff = 0 /\ pause = FALSE
PatchIdle == Constructed({})

InitDialog == DialogInit /\ SpinIdle /\ PatchIdle
NextDialog ==
    \/ ChooseFile
    \/ ChooseDirectory
    \/ accept_mark
    \/ accept_import
    \/ accept_close
    \/ reject
SpecDialog == InitDialog /\ [][NextDialog]_vars

InitSpin == SpinInit /\ DialogIdle /\ PatchIdle
NextSpin ==
    \/ StepBy
    \/ SetValue
SpecSpin == InitSpin /\ [][NextSpin]_vars

PressEvent == \E e \in Events : Press(e)
MotionEvent == \E e \in Events : Motion(e)
ReleaseEvent == \E e \in Events : Release(e)

InitPatch == Connected({"circle", "rectangle"}) /\ DialogIdle /\ SpinIdle
NextPatch ==
    \/ PressEvent
    \/ MotionEvent
    \/ ReleaseEvent
SpecPatch == InitPatch /\ [][NextPatch]_vars

Connect == \E p \in Patches : connect(p)
Disconnect == \E p \in Patches : disconnect(p)

InitConnect == Constructed({"circle", "rectangle"}) /\ DialogIdle /\ SpinIdle
NextConnect ==
    \/ Connect
    \/ Disconnect
SpecConnect == InitConnect /\ [][NextConnect]_vars

-----------------------------------------------------------------------------
(***************************************************************************)
(* Claims about BaseImportDialog (SpecDialog)                              *)
(***************************************************************************)

\* C1: cancelling the picker opened by choose_file() / choose_directory()
\* leaves the stored selection unchanged, and a confirmed pick stores the
\* picked path, so that get_filename() / get_directory() always return the
\* most recent confirmed pick (or "" if there was none).
C1_CancelKeepsSelection ==
    [][\A picked \in PickerResults :
          /\ choose_file(picked) =>
                get_filename' = (IF picked = Cancelled THEN get_filename ELSE picked)
          /\ choose_directory(picked) =>
                get_directory' = (IF picked = Cancelled THEN get_directory ELSE picked)
      ]_vars

\* C7: while the host's import routine runs the dialog is marked accepted and
\* is still open; the import routine is called by accept() only, once per
\* accept(); reject() marks the dialog not accepted and closes it without a
\* call of the import routine; a closed dialog has imported exactly once if
\* it was accepted and never if it was rejected.
C7_AcceptRejectProtocol ==
    /\ [](dpc = "import_data" => accepted /\ visible)
    /\ [](~visible => imports = (IF accepted THEN 1 ELSE 0))
    /\ [][/\ imports' # imports =>
                accept_import /\ accepted /\ visible /\ visible' /\ imports' = imports + 1
          /\ accept_mark => accepted' /\ visible' /\ imports' = imports
          /\ accept_close => ~visible' /\ accepted' /\ imports' = imports
          /\ reject => ~accepted' /\ ~visible' /\ imports' = imports
         ]_vars

\* C7 witness: the host import is about to be called from accept() on a
\* dialog that holds a file selection.
C7_Witness == dpc = "import_data" /\ accepted /\ visible /\ filename # ""

-----------------------------------------------------------------------------
(***************************************************************************)
(* Claims about NXSpinBox (SpecSpin)                                       *)
(***************************************************************************)

\* The step's target value lies in [centers[0] - diff/100, centers[-1] + diff/100].
InAxisRange(v) ==
    /\ 100 * v <= 100 * At(centers, Len(centers) - 1) + diff
    /\ 100 * v >= 100 * At(centers, 0) - diff

\* C4 as claimed: with an increment configured, stepBy(steps) moves to the
\* target value() + steps*diff exactly when the target lies in
\* [centers[0] - diff/100, centers[-1] + diff/100]; otherwise it sets pause
\* and does not move.
C4_AcceptedIffTargetInRange ==
    [][\A steps \in Steps \ {0} :
          (diff # 0 /\ stepBy(steps)) =>
              IF InAxisRange(value + steps * diff)
              THEN ~pause' /\ index' = indexFromValue(value + steps * diff)
              ELSE pause' /\ index' = index
      ]_vars

\* C4 amended: with an increment configured, stepBy(steps) moves to the
\* centre nearest the target t = value() + steps*diff exactly when
\* t <= centers[-1] + diff/100 and t - diff >= centers[0] - diff/100;
\* otherwise it sets pause and does not move.
C4_AcceptedIffTargetAndTargetMinusDiffInRange ==
    [][\A steps \in Steps \ {0} :
          (diff # 0 /\ stepBy(steps)) =>
              LET t == value + steps * diff IN
              IF /\ 100 * t <= 100 * At(centers, Len(centers) - 1) + diff
                 /\ 100 * (t - diff) >= 100 * At(centers, 0) - diff
              THEN ~pause' /\ index' = indexFromValue(t) /\ value' = valueFromIndex(index')
              ELSE pause' /\ index' = index /\ value' = value
      ]_vars

\* C4 witness: an increment is configured and a step was rejected although
\* the box is not at the first centre.
C4_Witness == diff # 0 /\ pause /\ index > 0

\* A step that would leave the range: in index mode the target index is
\* outside [0, maximum]; in increment mode the target value is outside the
\* axis by more than the tolerance.
WouldLeaveRange(steps) ==
    IF diff # 0 THEN ~InAxisRange(value + steps * diff)
    ELSE index + steps < 0 \/ index + steps > maximum

\* C5: the index always stays in [0, maximum]; a step that would leave the
\* range sets pause and leaves index and value() unchanged; every step that
\* ends paused left index and value() unchanged; a step that moved ends with
\* pause = False, whatever pause was before; in index mode a step that stays
\* in range moves by exactly steps and ends unpaused.
C5_SoftClamp ==
    /\ [](index \in 0..maximum)
    /\ [][\A steps \in Steps :
             stepBy(steps) =>
                 /\ WouldLeaveRange(steps) => pause'
                 /\ pause' => index' = index /\ value' = value
                 /\ index' # index => ~pause'
                 /\ (diff = 0 /\ ~WouldLeaveRange(steps)) =>
                        ~pause' /\ index' = index + steps
         ]_vars

\* C5 witness: in index mode a step beyond the last index was refused.
C5_Witness == diff = 0 /\ pause /\ index = maximum /\ maximum > 0

\* C6: for every valid index i, indexFromValue(valueFromIndex(i)) = i.
C6_IndexValueRoundTrip ==
    \A i \in 0..maximum : indexFromValue(valueFromIndex(i)) = i

\* C6 witness: an axis stored in descending order, of the longest length,
\* with the box moved to its last index.
C6_Witness == reversed /\ Len(data) = MaxLen /\ index = maximum

-----------------------------------------------------------------------------
(***************************************************************************)
(* Claims about NXpatch (SpecPatch, SpecConnect)                           *)
(***************************************************************************)

Dragging(p) == press[p] # None

\* C2: at most one shape is Dragging at a time.
C2_SingleDragger == Cardinality({p \in Patches : Dragging(p)}) <= 1

\* A shape has its three pointer callbacks registered with the canvas.
HasCallbacks(p) ==
    \A i \in 1..3 : \E c \in callbacks : c.patch = p /\ c.name = EventNames[i]

\* C3: while at least one shape has its callbacks registered the default
\* interaction mode of the plot surface is off.
C3_EditingExcludesPanZoom == (\E p \in Patches : HasCallbacks(p)) => ~active

\* C8: the geometry of a shape changes only in a motion event inside the
\* axes while the shape is Dragging; a press makes the shape Dragging exactly
\* when it is inside the hit region and clears the drag state otherwise; a
\* release leaves the shape Idle; press, release, motion while Idle and
\* motion outside the axes leave the geometry unchanged; Dragging is entered
\* only by a press inside the hit region.
C8_DragProtocol ==
    [][/\ \A p \in Patches :
             /\ shape'[p] # shape[p] =>
                   Dragging(p) /\ (\E e \in InAxesEvents : Motion(e))
             /\ (~Dragging(p) /\ Dragging(p)') =>
                   \E e \in InAxesEvents : is_inside(p, e) /\ Press(e)
       /\ \A e \in Events :
             /\ \/ \A p \in Patches : /\ Dragging(p)' <=> is_inside(p, e)
                                       /\ shape'[p] = shape[p]
                \/ ~Press(e)
             /\ \/ \A p \in Patches : ~Dragging(p)' /\ shape'[p] = shape[p]
                \/ ~Release(e)
             /\ \/ \A p \in Patches :
                       /\ press'[p] = press[p]
                       /\ (~Dragging(p) \/ ~e.inaxes) => shape'[p] = shape[p]
                \/ ~Motion(e)
      ]_vars

\* C8 witness: a shape is Dragging and its geometry differs from the
\* geometry it was constructed with.
C8_Witness == \E p \in Patches : Dragging(p) /\ shape[p] # PatchShapes[p]

\* Size of a shape and of a press-time snapshot.
SizeOf(s) == IF s.kind = "Circle" THEN <<s.r2>> ELSE <<s.w, s.h>>
SnapSize(p) ==
    IF shape[p].kind = "Circle" THEN <<Get(press[p]).r2>>
    ELSE <<Get(press[p]).w0, Get(press[p]).h0>>

MoveMode(p) == Dragging(p) /\ ~Get(press[p]).expand

\* C9: the snapshot taken at press holds the shape's position and size and
\* the press point; in move mode every in-axes motion puts the shape at
\* press-time position + (pointer - press point) with the press-time size,
\* whatever the motions before it; in move mode the size always equals the
\* press-time size; only a new press inside the hit region changes the
\* snapshot, and so the expand/move decision, of a Dragging shape.
C9_MoveIsTranslation ==
    /\ [](\A p \in Patches : MoveMode(p) => SizeOf(shape[p]) = SnapSize(p))
    /\ [][\A p \in Patches :
             /\ \A e \in InAxesEvents :
                   (is_inside(p, e) /\ Press(e)) =>
                       /\ Get(press'[p]).x0 = shape[p].x
                       /\ Get(press'[p]).y0 = shape[p].y
                       /\ SnapSize(p)' = SizeOf(shape[p])
                       /\ Get(press'[p]).xp = e.x
                       /\ Get(press'[p]).yp = e.y
             /\ MoveMode(p) =>
                   \A e \in InAxesEvents :
                       \/ /\ shape'[p].x = Get(press[p]).x0 + (e.x - Get(press[p]).xp)
                          /\ shape'[p].y = Get(press[p]).y0 + (e.y - Get(press[p]).yp)
                          /\ SizeOf(shape'[p]) = SnapSize(p)
                       \/ ~Motion(e)
             /\ (Dragging(p) /\ Dragging(p)' /\ press'[p] # press[p]) =>
                   \E e \in InAxesEvents : is_inside(p, e) /\ Press(e)
         ]_vars

\* C9 witness: a shape in a move-mode drag that has been moved away from its
\* press-time position.
C9_Witness ==
    \E p \in Patches :
        /\ MoveMode(p)
        /\ <<shape[p].x, shape[p].y>> # <<Get(press[p]).x0, Get(press[p]).y0>>

\* C10: in an expand-mode drag of a rectangle no motion event changes both
\* x/width and y/height.
C10_SingleAxisResize ==
    [][\A p \in Patches :
          (shape[p].kind = "Rectangle" /\ Dragging(p) /\ Get(press[p]).expand) =>
              ~(/\ <<shape'[p].x, shape'[p].w>> # <<shape[p].x, shape[p].w>>
                /\ <<shape'[p].y, shape'[p].h>> # <<shape[p].y, shape[p].h>>)
      ]_vars

=============================================================================
